---- MODULE Spec2Model ----
(***************************************************************************)
(* The lazily populated file tree of the GUI: FileTreeItem (node store)    *)
(* and FileTreeModel (the QAbstractItemModel adapter), together with the   *)
(* two MainWindow handlers that replace the model.                         *)
(*                                                                         *)
(* Names are sequences of character codes, paths are sequences of names    *)
(* (POSIX flavour of pathlib: comparison is by code point).  The file      *)
(* system is the environment: what is_dir() and iterdir() would answer for *)
(* the item a call asks about is an input of the call, so the directory    *)
(* may change arbitrarily between two calls.                               *)
(***************************************************************************)
EXTENDS Integers, Sequences, FiniteSets, TLC

VARIABLES
    items,      \* arena of FileTreeItem objects, item id = position
    root_item,  \* FileTreeModel.root_item of the model the window holds
    seen,       \* history: what each item's path was when the item got loaded
    ret         \* the last call: operation, arguments, resolved item, result

vars == <<items, root_item, seen, ret>>

\* ------------------------------------------------------------------ bounds
MaxNodes == 3
MaxRow == 2

\* ------------------------------------------------------------------ names
HiddenMarker == 46
ColumnCount == 1

NameGit == <<46, 103, 105, 116>>
NameNodeModules == <<110, 111, 100, 101, 95, 109, 111, 100, 117, 108, 101, 115>>
NamePycache == <<95, 95, 112, 121, 99, 97, 99, 104, 101, 95, 95>>
NameVenv == <<118, 101, 110, 118>>
NameReadme == <<82, 69, 65, 68, 77, 69, 46, 109, 100>>
NameSrc == <<115, 114, 99>>
NameHome == <<104, 111, 109, 101>>
NameProj == <<112, 114, 111, 106>>

\* the names a directory listing is drawn from
EntryNames == {NameGit, NameNodeModules, NameReadme, NameSrc}

HomePath == <<NameHome>>
ProjPath == <<NameHome, NameProj>>
RootPaths == {HomePath, ProjPath}

None == 0

\* ------------------------------------------------------- str and Path
\* str.startswith('.')
StartsWithHidden(name) == Len(name) >= 1 /\ name[1] = HiddenMarker

\* the set literal of load_children
Denylist == {NamePycache, NameNodeModules, NameVenv}

\* the skip rule with the set of names left out
SkippedHiddenOnly(name) == StartsWithHidden(name)

\* the negation of the condition guarding the append in load_children
Skipped(name) == StartsWithHidden(name) \/ name \in Denylist

\* Python's str < str: code point by code point, a proper prefix is smaller
RECURSIVE StrLess(_, _)
StrLess(a, b) ==
    IF a = <<>> THEN b # <<>>
    ELSE IF b = <<>> THEN FALSE
    ELSE IF a[1] # b[1] THEN a[1] < b[1]
    ELSE StrLess(Tail(a), Tail(b))

\* PurePath.__lt__: the lists of parts compared as Python lists of str
RECURSIVE PathLess(_, _)
PathLess(p, q) ==
    IF p = <<>> THEN q # <<>>
    ELSE IF q = <<>> THEN FALSE
    ELSE IF p[1] # q[1] THEN StrLess(p[1], q[1])
    ELSE PathLess(Tail(p), Tail(q))

\* the paths in an order a directory may list them in when nothing sorts
\* them (here: descending)
RECURSIVE unsorted(_)
unsorted(S) ==
    IF S = {} THEN <<>>
    ELSE LET m == CHOOSE x \in S : \A y \in S \ {x} : PathLess(y, x)
         IN  <<m>> \o unsorted(S \ {m})

\* sorted(iterable of Path): the ascending sequence of the paths
RECURSIVE sorted(_)
sorted(S) ==
    IF S = {} THEN <<>>
    ELSE LET m == CHOOSE x \in S : \A y \in S \ {x} : PathLess(x, y)
         IN  <<m>> \o sorted(S \ {m})

\* Path.name: the final component
PathName(p) == p[Len(p)]

\* --------------------------------------------------------- FileTreeItem
\* FileTreeItem.__init__
FileTreeItem(path, par) ==
    [path |-> path, parent_item |-> par, child_items |-> <<>>, loaded |-> FALSE]

\* the file system as one call finds it at the path of the item it asks
\* about: is_dir(), then iterdir(), which raises OSError when the directory
\* cannot be read or has vanished since is_dir() answered
EnvInputs ==
    {[is_dir |-> FALSE, oserror |-> FALSE, entries |-> {}],
     [is_dir |-> TRUE, oserror |-> TRUE, entries |-> {}]}
    \cup {[is_dir |-> TRUE, oserror |-> FALSE, entries |-> E] : E \in SUBSET EntryNames}

\* load_children without its first two lines (the loaded guard)
load_children_unguarded(its, n, env) ==
    IF env.is_dir THEN
        IF env.oserror
        THEN [items |-> its, iterdir |-> TRUE, raised |-> TRUE]
        ELSE LET paths == sorted({its[n].path \o <<e>> : e \in env.entries})
                 kept == SelectSeq(paths, LAMBDA p : ~Skipped(PathName(p)))
                 kids == [i \in 1..Len(kept) |-> FileTreeItem(kept[i], n)]
                 ids == [i \in 1..Len(kept) |-> Len(its) + i]
             IN  [items |-> [its EXCEPT ![n].child_items = @ \o ids,
                                        ![n].loaded = TRUE] \o kids,
                  iterdir |-> TRUE, raised |-> FALSE]
    ELSE [items |-> [its EXCEPT ![n].loaded = TRUE], iterdir |-> FALSE, raised |-> FALSE]

\* load_children that also loads each child it creates (as a file: a
\* recursive call that finds no directory)
load_children_eager(its, n, env) ==
    IF its[n].loaded THEN [items |-> its, iterdir |-> FALSE, raised |-> FALSE]
    ELSE IF env.is_dir THEN
        IF env.oserror
        THEN [items |-> its, iterdir |-> TRUE, raised |-> TRUE]
        ELSE LET paths == sorted({its[n].path \o <<e>> : e \in env.entries})
                 kept == SelectSeq(paths, LAMBDA p : ~Skipped(PathName(p)))
                 kids == [i \in 1..Len(kept) |->
                            [FileTreeItem(kept[i], n) EXCEPT !.loaded = TRUE]]
                 ids == [i \in 1..Len(kept) |-> Len(its) + i]
             IN  [items |-> [its EXCEPT ![n].child_items = @ \o ids,
                                        ![n].loaded = TRUE] \o kids,
                  iterdir |-> TRUE, raised |-> FALSE]
    ELSE [items |-> [its EXCEPT ![n].loaded = TRUE], iterdir |-> FALSE, raised |-> FALSE]

\* load_children without the is_dir() test: iterdir() is called on any path
\* and raises NotADirectoryError or FileNotFoundError (both OSError) on a
\* path that is no directory
load_children_any_path(its, n, env) ==
    IF its[n].loaded THEN [items |-> its, iterdir |-> FALSE, raised |-> FALSE]
    ELSE IF env.oserror \/ ~env.is_dir
    THEN [items |-> its, iterdir |-> TRUE, raised |-> TRUE]
    ELSE LET paths == sorted({its[n].path \o <<e>> : e \in env.entries})
             kept == SelectSeq(paths, LAMBDA p : ~Skipped(PathName(p)))
             kids == [i \in 1..Len(kept) |-> FileTreeItem(kept[i], n)]
             ids == [i \in 1..Len(kept) |-> Len(its) + i]
         IN  [items |-> [its EXCEPT ![n].child_items = @ \o ids,
                                    ![n].loaded = TRUE] \o kids,
              iterdir |-> TRUE, raised |-> FALSE]

\* FileTreeItem.load_children on item n of the arena its; iterdir: the call
\* enumerated the directory; raised: the OSError of iterdir left the method
load_children(its, n, env) ==
    IF its[n].loaded THEN [items |-> its, iterdir |-> FALSE, raised |-> FALSE]
    ELSE IF env.is_dir THEN
        IF env.oserror
        THEN [items |-> its, iterdir |-> TRUE, raised |-> TRUE]
        ELSE LET paths == sorted({its[n].path \o <<e>> : e \in env.entries})
                 kept == SelectSeq(paths, LAMBDA p : ~Skipped(PathName(p)))
                 kids == [i \in 1..Len(kept) |-> FileTreeItem(kept[i], n)]
                 ids == [i \in 1..Len(kept) |-> Len(its) + i]
             IN  [items |-> [its EXCEPT ![n].child_items = @ \o ids,
                                        ![n].loaded = TRUE] \o kids,
                  iterdir |-> TRUE, raised |-> FALSE]
    ELSE [items |-> [its EXCEPT ![n].loaded = TRUE], iterdir |-> FALSE, raised |-> FALSE]

\* FileTreeItem.child: no load_children call here
child(its, n, r) ==
    IF r < 0 \/ r >= Len(its[n].child_items) THEN None
    ELSE its[n].child_items[r + 1]

\* FileTreeItem.child_count
child_count(its, n, env) ==
    LET x == load_children(its, n, env)
    IN  [items |-> x.items, iterdir |-> x.iterdir, raised |-> x.raised,
         count |-> Len(x.items[n].child_items)]

\* list.index(x): the first position holding x, 0-based
ListIndex(s, x) == (CHOOSE i \in 1..Len(s) : s[i] = x /\ \A j \in 1..(i - 1) : s[j] # x) - 1

\* row that never looks the item up in its parent
row_zero(its, n) == 0

\* FileTreeItem.row
row(its, n) ==
    IF its[n].parent_item # None
    THEN ListIndex(its[its[n].parent_item].child_items, n)
    ELSE 0

\* -------------------------------------------------------- QModelIndex
\* QModelIndex(): row -1, column -1, no internal pointer
QModelIndex == [row |-> -1, column |-> -1, ptr |-> None]

\* QAbstractItemModel.createIndex, as index and parent call it
createIndex(r, c, item) == [row |-> r, column |-> c, ptr |-> item]

\* QModelIndex.isValid (the model pointer is set exactly when createIndex built it)
isValid(idx) == idx.row >= 0 /\ idx.column >= 0 /\ idx.ptr # None

\* ------------------------------------------------------------ results
NoName == <<>>
IntVal(k) == [tag |-> "int", int |-> k, index |-> QModelIndex, name |-> NoName]
IndexVal(i) == [tag |-> "index", int |-> 0, index |-> i, name |-> NoName]
ItemVal(n) == [tag |-> "item", int |-> n, index |-> QModelIndex, name |-> NoName]
NameVal(s) == [tag |-> "str", int |-> 0, index |-> QModelIndex, name |-> s]
NoneVal == [tag |-> "None", int |-> 0, index |-> QModelIndex, name |-> NoName]
OSErrorVal == [tag |-> "OSError", int |-> 0, index |-> QModelIndex, name |-> NoName]
AttributeErrorVal == [tag |-> "AttributeError", int |-> 0, index |-> QModelIndex, name |-> NoName]
\* a read through a pointer to released memory
UndefinedVal == [tag |-> "undefined", int |-> 0, index |-> QModelIndex, name |-> NoName]

\* -------------------------------------------------------- FileTreeModel
\* the item an index stands for in index and rowCount
ItemOf(self, par) == IF ~isValid(par) THEN self ELSE par.ptr

\* FileTreeModel.rowCount of the model whose root_item is self; item: the
\* item whose child_count was taken
rowCount(self, its, par, env) ==
    IF par.column > 0
    THEN [items |-> its, item |-> None, iterdir |-> FALSE, val |-> IntVal(0)]
    ELSE LET parent_item == ItemOf(self, par)
             x == child_count(its, parent_item, env)
         IN  [items |-> x.items, item |-> parent_item, iterdir |-> x.iterdir,
              val |-> IF x.raised THEN OSErrorVal ELSE IntVal(x.count)]

\* FileTreeModel.columnCount
columnCount(par) == ColumnCount

\* FileTreeModel.index; its first line is QAbstractItemModel.hasIndex:
\* row < 0 || column < 0 is false at once, else
\* row < rowCount(parent) && column < columnCount(parent)
index(self, its, r, c, par, env) ==
    IF r < 0 \/ c < 0
    THEN [items |-> its, item |-> None, iterdir |-> FALSE, val |-> IndexVal(QModelIndex)]
    ELSE LET rc == rowCount(self, its, par, env) IN
         IF rc.val.tag = "OSError" THEN rc
         ELSE IF ~(r < rc.val.int /\ c < columnCount(par))
         THEN [rc EXCEPT !.val = IndexVal(QModelIndex)]
         ELSE LET parent_item == ItemOf(self, par)
                  child_item == child(rc.items, parent_item, r)
              IN  [rc EXCEPT !.item = parent_item,
                             !.val = IF child_item # None
                                     THEN IndexVal(createIndex(r, c, child_item))
                                     ELSE IndexVal(QModelIndex)]

\* FileTreeModel.parent (None.row() raises AttributeError)
parent(self, its, idx) ==
    IF ~isValid(idx) THEN IndexVal(QModelIndex)
    ELSE LET child_item == idx.ptr
             parent_item == its[child_item].parent_item
         IN  IF parent_item = self THEN IndexVal(QModelIndex)
             ELSE IF parent_item = None THEN AttributeErrorVal
             ELSE IndexVal(createIndex(row(its, parent_item), 0, parent_item))

Roles == {"DisplayRole", "DecorationRole"}

\* FileTreeModel.data
data(its, idx, role) ==
    IF ~isValid(idx) THEN NoneVal
    ELSE IF role = "DisplayRole" THEN NameVal(PathName(its[idx.ptr].path))
    ELSE NoneVal

\* -------------------------------------------------------------- state
Ids == 1..Len(items)

\* the root of the graph an item belongs to
RECURSIVE RootOf(_, _)
RootOf(its, n) == IF its[n].parent_item = None THEN n ELSE RootOf(its, its[n].parent_item)

\* the items of graphs whose model was replaced
Discarded == {n \in Ids : RootOf(items, n) # root_item}

\* the indexes a caller can hold: QModelIndex(), the index of any item that is
\* some item's child, and of a former root that has children (parent returns
\* it for a child of that root once the model is replaced)
Rows == -1..MaxRow
Columns == -1..ColumnCount
AddressInputs ==
    {QModelIndex} \cup
    {createIndex(row(items, n), 0, n) :
        n \in {m \in Ids : items[m].parent_item # None
                           \/ (m # root_item /\ items[m].child_items # <<>>)}}

\* rowCount also tells apart the indexes of a further column
ColumnInputs ==
    AddressInputs \cup {[i EXCEPT !.column = ColumnCount] : i \in AddressInputs \ {QModelIndex}}

\* createIndex keeps no reference to the item, and nothing else keeps a
\* discarded graph alive: by the time the pointer of such an index is read
\* the interpreter may have released the item (TRUE) or not yet (FALSE)
Released(idx) == IF isValid(idx) /\ idx.ptr \in Discarded THEN BOOLEAN ELSE {FALSE}

NoEnv == [is_dir |-> FALSE, oserror |-> FALSE, entries |-> {}]

\* what a call records of the file system: the state of the path of an item
\* that was not loaded when the call asked about it, nothing otherwise
Observed(item, env) == IF item # None /\ ~items[item].loaded THEN env ELSE NoEnv

\* history: an item that gets loaded in this call keeps what its path was
SeenAfter(its, item, env) ==
    [n \in 1..Len(its) |->
        IF n > Len(items) THEN "unseen"
        ELSE IF n = item /\ ~items[n].loaded /\ its[n].loaded
        THEN (IF env.is_dir THEN "dir" ELSE "notdir")
        ELSE seen[n]]

\* a call: the operation, its arguments, what it found in the file system
\* (env, iterdir), the item it resolved its index to, and its result
Call(op, idx, r, c, role, env, iterdir, item, val) ==
    [op |-> op, index |-> idx, row |-> r, column |-> c, role |-> role,
     env |-> env, iterdir |-> iterdir, item |-> item, val |-> val]

\* no call is in progress: the caller has taken the last result
Waiting == Call("", QModelIndex, -1, -1, "", NoEnv, FALSE, None, NoneVal)

Init ==
    /\ items = <<FileTreeItem(HomePath, None)>>
    /\ seen = <<"unseen">>
    /\ root_item = 1
    /\ ret = Waiting

\* FileTreeModel.__init__ followed by QTreeView.setModel: the window and the
\* view drop the model they held
SetModel(op, path) ==
    /\ ret = Waiting
    /\ Len(items) < MaxNodes
    /\ items' = Append(items, FileTreeItem(path, None))
    /\ seen' = Append(seen, "unseen")
    /\ root_item' = Len(items) + 1
    /\ ret' = Call(op, QModelIndex, -1, -1, "", NoEnv, FALSE, Len(items) + 1, NoneVal)

NewProject == \E path \in RootPaths : SetModel("new_project", path)

OpenProject == \E path \in RootPaths : SetModel("open_project", path)

\* a call that read released memory: nothing is defined from here on
Undefined(op, idx, r, c, role) ==
    /\ ret' = Call(op, idx, r, c, role, NoEnv, FALSE, None, UndefinedVal)
    /\ UNCHANGED <<items, seen, root_item>>

RowCount ==
    /\ ret = Waiting
    /\ \E par \in ColumnInputs :
        \E released \in (IF par.column <= 0 THEN Released(par) ELSE {FALSE}) :
            IF released
            THEN Undefined("rowCount", par, -1, -1, "")
            ELSE \E env \in EnvInputs :
                LET x == rowCount(root_item, items, par, env) IN
                /\ Len(x.items) <= MaxNodes
                /\ items' = x.items
                /\ seen' = SeenAfter(x.items, x.item, env)
                /\ ret' = Call("rowCount", par, -1, -1, "", Observed(x.item, env),
                               x.iterdir, x.item, x.val)
                /\ UNCHANGED root_item

Index ==
    /\ ret = Waiting
    /\ \E par \in AddressInputs, r \in Rows, c \in Columns :
        \E released \in (IF r >= 0 /\ c >= 0 THEN Released(par) ELSE {FALSE}) :
            IF released
            THEN Undefined("index", par, r, c, "")
            ELSE \E env \in EnvInputs :
                LET x == index(root_item, items, r, c, par, env) IN
                /\ Len(x.items) <= MaxNodes
                /\ items' = x.items
                /\ seen' = SeenAfter(x.items, x.item, env)
                /\ ret' = Call("index", par, r, c, "", Observed(x.item, env),
                               x.iterdir, x.item, x.val)
                /\ UNCHANGED root_item

Parent ==
    /\ ret = Waiting
    /\ \E idx \in AddressInputs :
        \E released \in Released(idx) :
            IF released
            THEN Undefined("parent", idx, -1, -1, "")
            ELSE /\ ret' = Call("parent", idx, -1, -1, "", NoEnv, FALSE, idx.ptr,
                                parent(root_item, items, idx))
                 /\ UNCHANGED <<items, seen, root_item>>

ColumnCountCall ==
    /\ ret = Waiting
    /\ \E par \in AddressInputs :
        /\ ret' = Call("columnCount", par, -1, -1, "", NoEnv, FALSE, None,
                       IntVal(columnCount(par)))
        /\ UNCHANGED <<items, seen, root_item>>

Data ==
    /\ ret = Waiting
    /\ \E idx \in AddressInputs, role \in Roles :
        \E released \in Released(idx) :
            IF released
            THEN Undefined("data", idx, -1, -1, role)
            ELSE /\ ret' = Call("data", idx, -1, -1, role, NoEnv, FALSE, idx.ptr,
                                data(items, idx, role))
                 /\ UNCHANGED <<items, seen, root_item>>

\* FileTreeItem.child called on an item of the live graph
Child ==
    /\ ret = Waiting
    /\ \E n \in Ids \ Discarded, r \in Rows :
        LET k == child(items, n, r) IN
        /\ ret' = Call("child", QModelIndex, r, -1, "", NoEnv, FALSE, n,
                       IF k = None THEN NoneVal ELSE ItemVal(k))
        /\ UNCHANGED <<items, seen, root_item>>

\* the caller takes the result and control is back in the event loop; a call
\* that read released memory has no defined continuation
Return ==
    /\ ret # Waiting
    /\ ret.val.tag # "undefined"
    /\ ret' = Waiting
    /\ UNCHANGED <<items, seen, root_item>>

Next ==
    \/ Return
    \/ NewProject
    \/ OpenProject
    \/ RowCount
    \/ Index
    \/ Parent
    \/ ColumnCountCall
    \/ Data
    \/ Child

Spec == Init /\ [][Next]_vars

\* ------------------------------------------------------------- claims
\* the items of the graph the current model owns
Live == Ids \ Discarded

\* the children of an item, and the name an item shows
Kids(n) == items[n].child_items
NameOf(n) == PathName(items[n].path)

\* the index that denotes an item of the live graph
AddressOf(n) == IF n = root_item THEN QModelIndex ELSE createIndex(row(items, n), 0, n)

\* a name the tree must never show: hidden, or one of the three denied names
ExcludedName(name) ==
    name[1] = 46 \/ name \in {NamePycache, NameNodeModules, NameVenv}

\* C1: a rowCount call on the root index that enumerated the root directory
\* returns the number of listed entries whose name is neither hidden nor
\* denied, and no item's children ever hold an item with such a name.
C1_RootRowCount ==
    /\ (ret.op = "rowCount" /\ ret.index = QModelIndex /\ ret.iterdir
        /\ ret.val.tag = "int")
       => ret.val.int = Cardinality({e \in ret.env.entries : ~ExcludedName(e)})
    /\ \A n \in Ids : \A i \in 1..Len(Kids(n)) : ~ExcludedName(NameOf(Kids(n)[i]))

\* a root that lists only .git and node_modules was counted
C1_Witness ==
    /\ ret.op = "rowCount" /\ ret.index = QModelIndex /\ ret.iterdir
    /\ ret.env.entries = {NameGit, NameNodeModules}
    /\ ret.val = IntVal(0)

\* C2: a call whose enumeration failed returns normally and leaves the item
\* loaded with no children.
C2_FailureContained ==
    (ret.iterdir /\ ret.env.oserror)
    => /\ ret.val.tag # "OSError"
       /\ items[ret.item].loaded
       /\ Kids(ret.item) = <<>>

\* C3: a call given an index of an item of a replaced model's graph returns
\* the invalid or empty result.
C3_StaleIndexInvalid ==
    (ret.op \in {"index", "parent", "rowCount", "data"}
     /\ isValid(ret.index) /\ ret.index.ptr \in Discarded)
    => ret.val = CASE ret.op = "index" -> IndexVal(QModelIndex)
                   [] ret.op = "parent" -> IndexVal(QModelIndex)
                   [] ret.op = "rowCount" -> IntVal(0)
                   [] OTHER -> NoneVal

\* C4: every non-root item of the live graph is in its parent's children
\* exactly once, at position row(); index(row, 0, index of the parent)
\* denotes the item, and parent of that index is the index of the parent
\* (the invalid index when the parent is the root).
C4_ParentChildConsistent ==
    \A n \in Live :
        items[n].parent_item # None =>
            LET p == items[n].parent_item
                r == row(items, n)
                got == index(root_item, items, r, 0, AddressOf(p), NoEnv)
            IN  /\ Cardinality({i \in 1..Len(Kids(p)) : Kids(p)[i] = n}) = 1
                /\ r + 1 \in 1..Len(Kids(p))
                /\ Kids(p)[r + 1] = n
                /\ got.items = items
                /\ got.val = IndexVal(createIndex(r, 0, n))
                /\ parent(root_item, items, got.val.index) = IndexVal(AddressOf(p))

\* a live item at row 1, and a live item whose parent is not the root
C4_Witness ==
    \/ \E n \in Live : items[n].parent_item # None /\ row(items, n) = 1
                       /\ ret.op = "index" /\ ret.val = IndexVal(createIndex(1, 0, n))
    \/ \E n \in Live : items[n].parent_item \notin {None, root_item}
                       /\ ret.op = "parent" /\ ret.index.ptr = n
                       /\ isValid(ret.val.index)

\* C5: a loaded item never changes again, whatever is called and whatever
\* the file system has become, and no children sequence holds an item twice.
C5_Idempotent ==
    /\ [](\A n \in Ids : \A i, j \in 1..Len(Kids(n)) :
            (Kids(n)[i] = Kids(n)[j] \/ NameOf(Kids(n)[i]) = NameOf(Kids(n)[j])) => i = j)
    /\ [][\A n \in Ids : items[n].loaded =>
            /\ n <= Len(items')
            /\ items'[n] = items[n]]_vars

\* rowCount or index asked again about a directory item already loaded
C5_Witness ==
    /\ ret.op \in {"rowCount", "index"}
    /\ ret.item # None
    /\ ~ret.iterdir
    /\ seen[ret.item] = "dir"
    /\ Len(Kids(ret.item)) >= 1

\* C6: the names data() shows for consecutive rows of any item are strictly
\* ascending.
C6_ChildrenAscending ==
    \A n \in Ids : \A i \in 1..(Len(Kids(n)) - 1) :
        StrLess(data(items, createIndex(i - 1, 0, Kids(n)[i]), "DisplayRole").name,
                data(items, createIndex(i, 0, Kids(n)[i + 1]), "DisplayRole").name)

\* an item shows README.md at row 0 and src at row 1
C6_Witness ==
    \E n \in Ids :
        /\ Len(Kids(n)) = 2
        /\ NameOf(Kids(n)[1]) = NameReadme
        /\ NameOf(Kids(n)[2]) = NameSrc

\* C7: a rowCount or index call changes no item but the one its index
\* denotes, and every item it creates is a child of that one, not loaded and
\* without children; parent, columnCount and data change no item.
C7_SingleLevel ==
    [][/\ ret'.op \in {"rowCount", "index"} =>
            /\ ret'.item \in {None, ItemOf(root_item, ret'.index)}
            /\ \A n \in Ids : n # ret'.item => items'[n] = items[n]
            /\ \A n \in (1..Len(items')) \ Ids :
                    /\ ~items'[n].loaded
                    /\ items'[n].child_items = <<>>
                    /\ items'[n].parent_item = ret'.item
       /\ ret'.op \in {"parent", "columnCount", "data"} => items' = items]_vars

\* a call materialized an item below the root and created a child for it
C7_Witness ==
    /\ ret.op \in {"rowCount", "index"}
    /\ isValid(ret.index)
    /\ ret.iterdir
    /\ Len(Kids(ret.item)) >= 1
    /\ ~items[Kids(ret.item)[1]].loaded

\* C8: child leaves the item loaded, and answers None only for a row outside
\* the item's children.
C8_ChildMaterializes ==
    ret.op = "child" =>
        /\ items[ret.item].loaded
        /\ (ret.val = NoneVal) <=> (ret.row < 0 \/ ret.row >= Len(Kids(ret.item)))

\* C9: index returns, and returns a valid index exactly when the column is 0
\* and the row is within the children of the item its parent index denotes;
\* rowCount of an index of a further column is 0.
C9_IndexRange ==
    /\ ret.op = "index" =>
        IF /\ ret.column = 0
           /\ ret.row >= 0
           /\ ret.row < Len(Kids(ItemOf(root_item, ret.index)))
        THEN ret.val.tag = "index" /\ isValid(ret.val.index)
        ELSE ret.val = IndexVal(QModelIndex)
    /\ (ret.op = "rowCount" /\ ret.index.column > 0) => ret.val = IntVal(0)

\* C10: a call that asks about an item not yet loaded whose path is no
\* directory enumerates nothing and leaves the item loaded without children
\* (rowCount answers 0); such an item stays so, and no later call about it
\* enumerates or counts anything.
C10_NonDirectoryLeaf ==
    /\ [](/\ \A n \in Ids : seen[n] = "notdir" => items[n].loaded /\ Kids(n) = <<>>
          /\ (ret.op \in {"rowCount", "index"} /\ ret.item # None
              /\ seen[ret.item] = "notdir")
             => /\ ~ret.iterdir
                /\ ret.op = "rowCount" => ret.val = IntVal(0))
    /\ [][(/\ ret'.op \in {"rowCount", "index"}
           /\ ret'.item # None
           /\ ~items[ret'.item].loaded
           /\ ~ret'.env.is_dir)
          => /\ ~ret'.iterdir
             /\ items'[ret'.item].loaded
             /\ items'[ret'.item].child_items = <<>>
             /\ ret'.op = "rowCount" => ret'.val = IntVal(0)]_vars

\* rowCount answered 0 for the item of the file README.md
C10_Witness ==
    /\ ret.op = "rowCount"
    /\ isValid(ret.index)
    /\ ret.item # None
    /\ seen[ret.item] = "notdir"
    /\ NameOf(ret.item) = NameReadme
    /\ ret.val = IntVal(0)

====
